---------------------------- MODULE Spec2Model ----------------------------
(***************************************************************************)
(* Employee directory (Dannybase): the record canonicalisation and         *)
(* enrichment rules of main.py, the CSV-backed employee store they keep,   *)
(* the migration scripts and the batch username generator.                 *)
(*                                                                         *)
(* Python values are records [t, v]: t is the Python type, v the payload,  *)
(* always a sequence of characters.  A str is the sequence of its          *)
(* characters, so that formatting, parsing and case conversion are         *)
(* computed character by character.                                        *)
(***************************************************************************)
EXTENDS Integers, Sequences, FiniteSets, TLC

VARIABLES
    today,      \* datetime.datetime.today(), as [y, m, d]
    row,        \* enrich: the dict object the caller passes (mutated in place)
    row0,       \* enrich: the caller's copy of that dict taken before the first call
    ret1,       \* enrich: outcome of the first call
    ret2,       \* enrich: outcome of the call on the first call's result
    calls,      \* enrich: number of calls made so far
    nraw,       \* canonicalisation: the raw record (a JSON body, or a CSV row)
    npath,      \* canonicalisation: the path the record has gone through
    nout,       \* canonicalisation: the record that path produced
    first_name, \* generate_username: its first argument
    last_name,  \* generate_username: its second argument
    username,   \* generate_username: the call's outcome
    db,         \* the content of db.csv
    view,       \* the frame the last read (index, export) produced
    resp,       \* the last request: [op, status, body]
    target,     \* batch: Final_Import.csv, [exists, file]
    df_target,  \* batch: the frame main works on
    pc,         \* batch: the position of main
    row_index,  \* batch: index, the row the loop of main is at
    username_tracker, \* batch: the usernames generated, each with its EmployeeIDs
    log         \* batch: the warnings and errors logged

enrichVars == <<row, row0, ret1, ret2, calls>>
normVars == <<nraw, npath, nout>>
userVars == <<first_name, last_name, username>>
storeVars == <<db, view, resp>>
batchVars == <<target, df_target, pc, row_index, username_tracker, log>>
vars == <<today, enrichVars, normVars, userVars, storeVars, batchVars>>

----------------------------------------------------------------------------
(* Python values *)

S(s) == [t |-> "str", v |-> s]
None == [t |-> "none", v |-> <<>>]
NaN == [t |-> "nan", v |-> <<>>]              \* float('nan')

IsStr(x) == x.t = "str"

NA == <<"N", "/", "A">>
NAv == S(NA)
Empty == S(<<>>)

Digits == <<"0", "1", "2", "3", "4", "5", "6", "7", "8", "9">>
IsDigit(c) == \E i \in 1..10 : Digits[i] = c
DigitVal(c) == (CHOOSE i \in 1..10 : Digits[i] = c) - 1

RECURSIVE NatStr(_)
NatStr(n) == IF n < 10 THEN <<Digits[n + 1]>>
             ELSE NatStr(n \div 10) \o <<Digits[(n % 10) + 1]>>

\* str(n) for an int
IntStr(n) == IF n < 0 THEN <<"-">> \o NatStr(-n) ELSE NatStr(n)

RECURSIVE DigitsVal(_)
DigitsVal(s) == IF Len(s) = 0 THEN 0
                ELSE 10 * DigitsVal(SubSeq(s, 1, Len(s) - 1)) + DigitVal(s[Len(s)])

AllDigits(s) == Len(s) > 0 /\ \A i \in 1..Len(s) : IsDigit(s[i])

\* An int n and the float n.0: the payload is the decimal numeral of n.
I(n) == [t |-> "int", v |-> IntStr(n)]
F(n) == [t |-> "float", v |-> IntStr(n)]
IntOf(x) == IF x.v[1] = "-" THEN 0 - DigitsVal(Tail(x.v)) ELSE DigitsVal(x.v)

\* bool(x)
Truthy(x) ==
    CASE x.t = "str" -> Len(x.v) > 0
      [] x.t = "none" -> FALSE
      [] x.t = "int" -> IntOf(x) # 0
      [] x.t = "float" -> IntOf(x) # 0
      [] OTHER -> TRUE

\* str(x), as an f-string renders a value
PyStr(x) ==
    CASE x.t = "str" -> x.v
      [] x.t = "int" -> x.v
      [] x.t = "float" -> x.v \o <<".", "0">>
      [] x.t = "none" -> <<"N", "o", "n", "e">>
      [] OTHER -> <<"n", "a", "n">>

Upper == <<"A", "B", "C", "D", "E", "F", "G", "H", "I", "J", "K", "L", "M",
           "N", "O", "P", "Q", "R", "S", "T", "U", "V", "W", "X", "Y", "Z">>
LowerOf == <<"a", "b", "c", "d", "e", "f", "g", "h", "i", "j", "k", "l", "m",
             "n", "o", "p", "q", "r", "s", "t", "u", "v", "w", "x", "y", "z">>
LowerChar(c) == IF \E i \in 1..26 : Upper[i] = c
                THEN LowerOf[CHOOSE i \in 1..26 : Upper[i] = c]
                ELSE c
\* str.lower()
Lower(s) == [i \in 1..Len(s) |-> LowerChar(s[i])]

----------------------------------------------------------------------------
(* Python dicts: functions from key to value *)

Has(d, k) == k \in DOMAIN d
\* d.get(k): None when the key is missing
Get(d, k) == IF Has(d, k) THEN d[k] ELSE None
GetOr(d, k, dflt) == IF Has(d, k) THEN d[k] ELSE dflt
\* d[k] = x
Put(d, k, x) == [j \in (DOMAIN d) \cup {k} |-> IF j = k THEN x ELSE d[j]]
EmptyDict == [j \in {} |-> None]

----------------------------------------------------------------------------
(* datetime.datetime.strptime(x, '%m/%d/%Y') *)

\* the directive %m: 1[0-2]|0[1-9]|[1-9]
MonthTok(s) ==
    \/ Len(s) = 2 /\ s[1] = "1" /\ s[2] \in {"0", "1", "2"}
    \/ Len(s) = 2 /\ s[1] = "0" /\ IsDigit(s[2]) /\ s[2] # "0"
    \/ Len(s) = 1 /\ IsDigit(s[1]) /\ s[1] # "0"

\* the directive %d: 3[0-1]|[1-2]\d|0[1-9]|[1-9]| [1-9]
DayTok(s) ==
    \/ Len(s) = 2 /\ s[1] = "3" /\ s[2] \in {"0", "1"}
    \/ Len(s) = 2 /\ s[1] \in {"1", "2"} /\ IsDigit(s[2])
    \/ Len(s) = 2 /\ s[1] \in {"0", " "} /\ IsDigit(s[2]) /\ s[2] # "0"
    \/ Len(s) = 1 /\ IsDigit(s[1]) /\ s[1] # "0"

\* the directive %Y: \d\d\d\d
YearTok(s) == Len(s) = 4 /\ AllDigits(s)

\* int() of a matched group (a leading space is skipped)
TokVal(s) == IF s[1] = " " THEN DigitsVal(Tail(s)) ELSE DigitsVal(s)

IsLeap(y) == (y % 4 = 0 /\ y % 100 # 0) \/ y % 400 = 0
DaysIn(m, y) == IF m = 2 THEN (IF IsLeap(y) THEN 29 ELSE 28)
                ELSE IF m \in {4, 6, 9, 11} THEN 30 ELSE 31

SlashPos(s) == {i \in 1..Len(s) : s[i] = "/"}

NoDate == [y |-> 0, m |-> 0, d |-> 0]
\* [exc, dt]: exc is "" when the string parses, else the exception raised
strptime(x) ==
    IF ~IsStr(x) THEN [exc |-> "TypeError", dt |-> NoDate]
    ELSE LET s == x.v
             P == SlashPos(s)
         IN IF Cardinality(P) # 2 THEN [exc |-> "ValueError", dt |-> NoDate]
            ELSE LET i == CHOOSE p \in P : \A q \in P : p <= q
                     j == CHOOSE p \in P : \A q \in P : p >= q
                     ms == SubSeq(s, 1, i - 1)
                     ds == SubSeq(s, i + 1, j - 1)
                     ys == SubSeq(s, j + 1, Len(s))
                 IN IF MonthTok(ms) /\ DayTok(ds) /\ YearTok(ys)
                    THEN LET y == DigitsVal(ys)
                             m == TokVal(ms)
                             d == TokVal(ds)
                         IN IF y >= 1 /\ d <= DaysIn(m, y)
                            THEN [exc |-> "", dt |-> [y |-> y, m |-> m, d |-> d]]
                            ELSE [exc |-> "ValueError", dt |-> NoDate]
                    ELSE [exc |-> "ValueError", dt |-> NoDate]

\* (a.month, a.day) < (b.month, b.day)
MonthDayBefore(a, b) == a.m < b.m \/ (a.m = b.m /\ a.d < b.d)

\* variant: the calendar-year difference, without the anniversary term
CalendarYears(td, dt) == td.y - dt.y
\* today.year - dt.year - ((today.month, today.day) < (dt.month, dt.day))
FullYears(td, dt) == td.y - dt.y - (IF MonthDayBefore(td, dt) THEN 1 ELSE 0)

----------------------------------------------------------------------------
(* enrich_employee_row *)

EmailSuffix == <<"@", "m", "y", "w", "i", "n", "t", "e", "r", "h", "a", "v",
                 "e", "n", ".", "c", "o", "m">>

\* the WorkEmail branch: f"{row['Username']}@mywinterhaven.com", or 'N/A'
WorkEmailOf(r) ==
    IF Has(r, "Username") /\ r["Username"] \notin {None, Empty, NAv}
    THEN S(PyStr(r["Username"]) \o EmailSuffix)
    ELSE NAv

\* row.get('JoinDate') or row.get('Join Date')
JoinDateOf(r) ==
    IF Truthy(Get(r, "JoinDate")) THEN Get(r, "JoinDate") ELSE Get(r, "Join Date")

\* variant: a handler that catches ValueError only
ExceptValueError(e) == e = "ValueError"
\* the clause "except Exception" of the try around strptime: catches whatever is raised
ExceptException(e) == e # ""

\* the YearsOfService branch: [raised, val]
YearsOfServiceOf(r, td) ==
    LET jd == JoinDateOf(r)
    IN IF Truthy(jd) /\ jd \notin {NAv, Empty, None}
       THEN LET p == strptime(jd)
            IN IF p.exc = "" THEN [raised |-> "", val |-> S(IntStr(FullYears(td, p.dt)))]
               ELSE IF ExceptException(p.exc) THEN [raised |-> "", val |-> NAv]
               ELSE [raised |-> p.exc, val |-> None]
       ELSE [raised |-> "", val |-> NAv]

\* variant: a derivation that builds WorkEmail from the WorkEmail already there
EnrichReadingDerived(r, td) ==
    LET r1 == Put(r, "WorkEmail",
                  IF Has(r, "WorkEmail") /\ r["WorkEmail"] # NAv
                  THEN S(PyStr(r["WorkEmail"]) \o EmailSuffix)
                  ELSE WorkEmailOf(r))
        ys == YearsOfServiceOf(r, td)
    IN [row |-> Put(r1, "YearsOfService", ys.val), raised |-> ""]
\* The call's outcome [row, raised]: row is the argument dict as the call leaves
\* it (the function assigns into it and returns that same object), raised the
\* exception that escaped ("" when the call returned).
enrich_employee_row(r, td) ==
    LET r1 == Put(r, "WorkEmail", WorkEmailOf(r))
        ys == YearsOfServiceOf(r1, td)
    IN IF ys.raised # "" THEN [row |-> r1, raised |-> ys.raised]
       ELSE [row |-> Put(r1, "YearsOfService", ys.val), raised |-> ""]

----------------------------------------------------------------------------
(* pandas DataFrames and CSV files.  A DataFrame is [cols, rows]: the column *)
(* names in order and one dict per row; a CSV file is [header, lines], each  *)
(* cell the text written.  The values and cell texts of this model are str,  *)
(* int, float with a zero fraction, None and NaN.                            *)

Range(s) == {s[i] : i \in 1..Len(s)}

\* x itself; the comparison makes TLC compute a function once, not at each use
Eager(x) == IF x = x THEN x ELSE x

\* canonical_cols of main.py (save_employees, api_create_employee, export)
canonical_cols ==
    <<"EmployeeID", "Username", "WorkEmail", "FirstName", "LastName", "Nickname",
      "DepartmentCode", "Department", "Position", "JoinDate", "Birthday",
      "OfficeLocation", "Supervisor", "OfficePhoneAndExtension", "MobilePhone",
      "EmploymentType", "EmploymentStatus", "YearsOfService">>

\* CANONICAL_COLS of the migration scripts
CANONICAL_COLS ==
    <<"EmployeeID", "Username", "FirstName", "LastName", "Nickname",
      "DepartmentCode", "Department", "Position", "JoinDate", "Birthday",
      "OfficeLocation", "Supervisor", "OfficePhoneAndExtension", "MobilePhone",
      "EmploymentType", "EmploymentStatus">>

EmptyDF == [cols |-> <<>>, rows |-> <<>>]
EmptyFile == [header |-> <<>>, lines |-> <<>>]

\* pd.isnull
IsNull(x) == x.t \in {"nan", "none"}

\* A float64 column: only numbers and NaN, not all of them ints.  Its ints
\* are floats.  None makes an object column, whose values stay as they are.
Floaty(rows, c) ==
    /\ \A i \in 1..Len(rows) : rows[i][c].t \in {"int", "float", "nan"}
    /\ \E i \in 1..Len(rows) : rows[i][c].t # "int"
    /\ \E i \in 1..Len(rows) : rows[i][c].t \in {"int", "float"}
AsFloat(x) == IF x.t = "int" THEN F(IntOf(x)) ELSE x
Settle(cols, rows) ==
    LET rs == Eager(rows)
        fl == Eager({c \in Range(cols) : Floaty(rs, c)})
    IN Eager([i \in 1..Len(rs) |->
                [c \in Range(cols) |-> IF c \in fl THEN AsFloat(rs[i][c]) ELSE rs[i][c]]])

\* In a list of records a None beside numbers is a missing number
NoneAsNaN(rows, c) ==
    /\ \A i \in 1..Len(rows) : rows[i][c].t \in {"int", "float", "nan", "none"}
    /\ \E i \in 1..Len(rows) : rows[i][c].t \in {"int", "float"}
FromRecords(cols, rows) ==
    LET rs == Eager(rows)
        nn == Eager({c \in Range(cols) : NoneAsNaN(rs, c)})
    IN [i \in 1..Len(rs) |->
          [c \in Range(cols) |->
             IF c \in nn /\ rs[i][c].t = "none" THEN NaN ELSE rs[i][c]]]

\* pd.DataFrame(records): no record gives a frame without columns
DataFrame(records, cols) ==
    IF Len(records) = 0 THEN EmptyDF
    ELSE [cols |-> cols,
          rows |-> Settle(cols, FromRecords(cols,
                                  [i \in 1..Len(records) |->
                                     [c \in Range(cols) |-> GetOr(records[i], c, NaN)]]))]

\* the columns of pd.DataFrame(enriched): those of the rows enriched, then the
\* derived keys the enrichment appended
EnrichedCols(cols) ==
    cols \o (IF "WorkEmail" \in Range(cols) THEN <<>> ELSE <<"WorkEmail">>)
         \o (IF "YearsOfService" \in Range(cols) THEN <<>> ELSE <<"YearsOfService">>)

MapCells(df, Op(_)) ==
    [cols |-> df.cols,
     rows |-> Eager([i \in 1..Len(df.rows) |->
                       [c \in Range(df.cols) |-> Op(df.rows[i][c])]])]

\* df.fillna('')
fillna_empty(x) == IF IsNull(x) THEN Empty ELSE x
\* df.where(pd.notnull(df), 'N/A')
where_notnull_NA(x) == IF IsNull(x) THEN NAv ELSE x
\* df.where(pd.notnull(df), None)
where_notnull_None(x) == IF IsNull(x) THEN None ELSE x
\* variant: the replacement of '' left out
KeepEmpty(x) == x
\* df.replace('', 'N/A')
replace_empty_NA(x) == IF x = Empty THEN NAv ELSE x

\* for col in cols: if col not in df.columns: df[col] = fill
AddCols(df, cols, fill) ==
    LET Missing(c) == c \notin Range(df.cols)
        all == df.cols \o SelectSeq(cols, Missing)
    IN [cols |-> all,
        rows |-> Eager([i \in 1..Len(df.rows) |->
                          [c \in Range(all) |-> GetOr(df.rows[i], c, fill)]])]

\* df[cols]
SelectCols(df, cols) ==
    [cols |-> cols,
     rows |-> Eager([i \in 1..Len(df.rows) |-> [c \in Range(cols) |-> df.rows[i][c]]])]

\* pd.concat([a, b], ignore_index=True)
concat(a, b) ==
    LET New(c) == c \notin Range(a.cols)
        all == a.cols \o SelectSeq(b.cols, New)
        rs == a.rows \o b.rows
    IN [cols |-> all,
        rows |-> Settle(all, [i \in 1..Len(rs) |->
                                [c \in Range(all) |-> GetOr(rs[i], c, NaN)]])]

\* the text to_csv writes for a value
CellText(x) == IF IsNull(x) THEN <<>> ELSE PyStr(x)

\* df.to_csv(path, index=False)
to_csv(df) ==
    [header |-> df.cols,
     lines |-> Eager([i \in 1..Len(df.rows) |->
                        [c \in Range(df.cols) |-> CellText(df.rows[i][c])]])]

\* cell texts read_csv takes for missing values (those this model's files can hold)
NATokens == {<<>>, NA, <<"N", "A">>, <<"N", "a", "N">>, <<"n", "a", "n">>,
             <<"n", "/", "a">>, <<"N", "U", "L", "L">>, <<"n", "u", "l", "l">>}

IsIntText(s) ==
    \/ AllDigits(s)
    \/ Len(s) > 1 /\ s[1] \in {"-", "+"} /\ AllDigits(Tail(s))
IntTextVal(s) == IF s[1] = "-" THEN 0 - DigitsVal(Tail(s))
                 ELSE IF s[1] = "+" THEN DigitsVal(Tail(s)) ELSE DigitsVal(s)
DotPos(s) == {i \in 1..Len(s) : s[i] = "."}
\* a decimal with a zero fraction, as to_csv writes a whole float
IsFloatText(s) ==
    /\ Cardinality(DotPos(s)) = 1
    /\ LET p == CHOOSE i \in DotPos(s) : TRUE
       IN /\ p > 1 /\ p < Len(s)
          /\ IsIntText(SubSeq(s, 1, p - 1))
          /\ \A i \in (p + 1)..Len(s) : s[i] = "0"
FloatTextVal(s) == IntTextVal(SubSeq(s, 1, (CHOOSE i \in DotPos(s) : TRUE) - 1))

\* the dtype read_csv infers for a column from its cells
ColumnKind(lines, c) ==
    LET texts == {lines[i][c] : i \in 1..Len(lines)} \ NATokens
    IN IF texts = {} THEN "null"
       ELSE IF \A s \in texts : IsIntText(s) THEN "int"
       ELSE IF \A s \in texts : IsIntText(s) \/ IsFloatText(s) THEN "float"
       ELSE "str"
ParseCell(kind, s) ==
    IF s \in NATokens THEN NaN
    ELSE IF kind = "int" THEN I(IntTextVal(s))
    ELSE IF kind = "float"
         THEN F(IF IsIntText(s) THEN IntTextVal(s) ELSE FloatTextVal(s))
    ELSE S(s)

\* a byte that is not UTF-8, as a file saved in another encoding holds (one
\* character of the cell's text in this model)
BadByte == "\\xe9"
Undecodable(file) ==
    \E i \in 1..Len(file.lines) : \E c \in DOMAIN file.lines[i] :
        \E k \in 1..Len(file.lines[i][c]) : file.lines[i][c][k] = BadByte

\* pd.read_csv(path): [exc, df]; a file without a header line raises, and so
\* does a file that is not UTF-8
read_csv(file) ==
    IF Len(file.header) = 0 THEN [exc |-> "EmptyDataError", df |-> EmptyDF]
    ELSE IF Undecodable(file) THEN [exc |-> "UnicodeDecodeError", df |-> EmptyDF]
    ELSE LET kind == Eager([c \in Range(file.header) |-> ColumnKind(file.lines, c)])
         IN [exc |-> "",
             df |-> [cols |-> file.header,
                     rows |-> Settle(file.header,
                                [i \in 1..Len(file.lines) |->
                                   [c \in Range(file.header) |->
                                      ParseCell(kind[c], file.lines[i][c])]])]]

\* pd.read_csv(path, dtype=str)
read_csv_str(file) ==
    IF Len(file.header) = 0 THEN [exc |-> "EmptyDataError", df |-> EmptyDF]
    ELSE IF Undecodable(file) THEN [exc |-> "UnicodeDecodeError", df |-> EmptyDF]
    ELSE [exc |-> "",
          df |-> [cols |-> file.header,
                  rows |-> Eager([i \in 1..Len(file.lines) |->
                                    [c \in Range(file.header) |->
                                       IF file.lines[i][c] \in NATokens THEN NaN
                                       ELSE S(file.lines[i][c])]])]]

----------------------------------------------------------------------------
(* save_employees and load_employees *)

\* the enrichment of every row: enrich_employee_row(dict(row)) for row in records
EnrichRows(rows, td) == Eager([i \in 1..Len(rows) |-> enrich_employee_row(rows[i], td)])
AnyRaised(outs) == \E i \in 1..Len(outs) : outs[i].raised # ""
RowsOf(outs) == [i \in 1..Len(outs) |-> outs[i].row]

\* df.where(pd.notnull(df), 'N/A').replace('', 'N/A')
placeholders(df) == MapCells(MapCells(df, where_notnull_NA), replace_empty_NA)

\* pd.DataFrame(enriched) with the placeholders put in: [exc, df]
enriched_frame(outs, cols) ==
    IF AnyRaised(outs) THEN [exc |-> TRUE, df |-> EmptyDF]
    ELSE [exc |-> FALSE, df |-> placeholders(DataFrame(RowsOf(outs), cols))]

\* what load_employees and save_employees both do to a frame: fillna(''), the
\* enrichment of every row, the frame of the enriched rows, the placeholders
enrich_frame(df, td) ==
    enriched_frame(EnrichRows(MapCells(df, fillna_empty).rows, td), EnrichedCols(df.cols))

\* variant: the frame written as selected, neither enriched nor given placeholders
SaveAsSelected(df, td) ==
    [exc |-> FALSE,
     df |-> MapCells(SelectCols(AddCols(df, canonical_cols, NAv), canonical_cols),
                     fillna_empty)]
\* save_employees up to to_csv: [exc, df], df the frame written
save_frame(df, td) ==
    enrich_frame(SelectCols(AddCols(df, canonical_cols, NAv), canonical_cols), td)

\* the content of db.csv after save_employees: an exception is printed and the
\* file left as it was
written(file, w) == IF w.exc THEN file ELSE to_csv(w.df)

\* save_employees: the content of db.csv after the call
save_employees(file, df, td) == written(file, save_frame(df, td))

\* load_employees once the file is read: an empty frame on any exception
loaded(r, td) == IF r.exc # "" THEN EmptyDF ELSE enrich_frame(r.df, td).df

\* variant: a read that returns what the file holds, without enriching
LoadWithoutEnrich(file, td) ==
    LET r == read_csv(file)
    IN IF r.exc # "" THEN EmptyDF ELSE placeholders(MapCells(r.df, fillna_empty))
\* load_employees: the frame returned
load_employees(file, td) == loaded(read_csv(file), td)

----------------------------------------------------------------------------
(* The canonicalisation paths *)

\* variant: only the loop that fills the missing columns, without the rebuild
FillMissingOnly(emp) ==
    [c \in (DOMAIN emp) \cup Range(canonical_cols) |-> GetOr(emp, c, NAv)]
\* api_create_employee: emp = {col: emp.get(col, 'N/A') for col in canonical_cols}
create_canonical(emp) == [c \in Range(canonical_cols) |-> GetOr(emp, c, NAv)]

\* test/migrate_csv_to_sqlite.py migrate: [exc, df], df the frame handed to to_sql
migrate_sqlite(file) ==
    LET r == read_csv(file)
    IN IF r.exc # "" THEN [exc |-> TRUE, df |-> EmptyDF]
       ELSE [exc |-> FALSE,
             df |-> SelectCols(AddCols(placeholders(r.df), CANONICAL_COLS, NAv),
                               CANONICAL_COLS)]

\* migrate_to_postgres.py migrate: [exc, df], df the frame whose rows are copied
migrate_postgres(file) ==
    LET r == read_csv_str(file)
    IN IF r.exc # "" THEN [exc |-> TRUE, df |-> EmptyDF]
       ELSE [exc |-> FALSE,
             df |-> SelectCols(AddCols(MapCells(r.df, where_notnull_None),
                                       CANONICAL_COLS, None),
                               CANONICAL_COLS)]

----------------------------------------------------------------------------
(* Inputs of the enrichment runs *)

Absent == [t |-> "absent", v |-> <<>>]        \* marks a key the dict does not hold
\* the dict holding the keys of f whose value is not Absent
DictOf(f) == [k \in {j \in DOMAIN f : f[j] # Absent} |-> f[k]]

Str_jdoe == <<"j", "d", "o", "e">>
Str_JDoe == <<"J", "D", "o", "e">>
Date_03_15_2020 == <<"0", "3", "/", "1", "5", "/", "2", "0", "2", "0">>
Date_3_5_2020 == <<"3", "/", "5", "/", "2", "0", "2", "0">>
Date_02_29_2020 == <<"0", "2", "/", "2", "9", "/", "2", "0", "2", "0">>
Date_02_29_2021 == <<"0", "2", "/", "2", "9", "/", "2", "0", "2", "1">>
Date_13_01_2020 == <<"1", "3", "/", "0", "1", "/", "2", "0", "2", "0">>
Date_03_sp5_2020 == <<"0", "3", "/", " ", "5", "/", "2", "0", "2", "0">>
Date_03_15_20 == <<"0", "3", "/", "1", "5", "/", "2", "0">>
Date_03_15_20201 == <<"0", "3", "/", "1", "5", "/", "2", "0", "2", "0", "1">>
Date_iso == <<"2", "0", "2", "0", "-", "0", "3", "-", "1", "5">>
Date_12_31_2030 == <<"1", "2", "/", "3", "1", "/", "2", "0", "3", "0">>
Str_notadate == <<"n", "o", "t", "-", "a", "-", "d", "a", "t", "e">>
Str_email == <<"x", "@", "y">>

UsernameInputs == {Absent, None, Empty, NAv, S(Str_jdoe), S(Str_JDoe), I(7), I(0)}
JoinDateInputs ==
    {Absent, None, Empty, NAv, I(2020), I(0),
     S(Date_03_15_2020), S(Date_3_5_2020), S(Date_02_29_2020), S(Date_02_29_2021),
     S(Date_13_01_2020), S(Date_03_sp5_2020), S(Date_03_15_20), S(Date_03_15_20201),
     S(Date_iso), S(Date_12_31_2030), S(Str_notadate)}
LegacyJoinDateInputs == {Absent, S(Date_03_15_2020), S(Str_notadate)}
DerivedInputs == {Absent, NAv, S(Str_email)}

EnrichInputs ==
    {DictOf([k \in {"Username", "JoinDate", "Join Date", "WorkEmail", "YearsOfService"} |->
                CASE k = "Username" -> u
                  [] k = "JoinDate" -> j
                  [] k = "Join Date" -> l
                  [] k = "WorkEmail" -> w
                  [] OTHER -> y]) :
        u \in UsernameInputs, j \in JoinDateInputs, l \in LegacyJoinDateInputs,
        w \in DerivedInputs, y \in {Absent, S(<<"9", "9">>)}}

Todays == {[y |-> 2024, m |-> 3, d |-> 14], [y |-> 2024, m |-> 3, d |-> 15],
           [y |-> 2025, m |-> 2, d |-> 28], [y |-> 2026, m |-> 11, d |-> 3]}

NoCall == [row |-> EmptyDict, raised |-> "-"]

----------------------------------------------------------------------------
(* The enrichment runs: a caller builds a dict, calls enrich_employee_row on  *)
(* it, then calls it again on what the first call returned.                 *)

NoOutcome == [raised |-> "-", val |-> None]
NoResp == [op |-> "-", status |-> 0, body |-> EmptyDict, row |-> 0]

EnrichIdle == row = EmptyDict /\ row0 = EmptyDict /\ ret1 = NoCall /\ ret2 = NoCall /\ calls = 0
NormIdle == nraw = EmptyDict /\ npath = "-" /\ nout = EmptyDict
UserIdle == first_name = None /\ last_name = None /\ username = NoOutcome
StoreIdle == db = EmptyFile /\ view = EmptyDF /\ resp = NoResp
BatchIdle ==
    /\ target = [exists |-> FALSE, file |-> EmptyFile]
    /\ df_target = EmptyDF
    /\ pc = "-"
    /\ row_index = 0
    /\ username_tracker = <<>>
    /\ log = <<>>

InitEnrich ==
    /\ today \in Todays
    /\ row \in EnrichInputs
    /\ row0 = row
    /\ ret1 = NoCall
    /\ ret2 = NoCall
    /\ calls = 0
    /\ NormIdle /\ UserIdle /\ StoreIdle /\ BatchIdle

EnrichCall ==
    /\ calls = 0
    /\ ret1' = enrich_employee_row(row, today)
    /\ row' = ret1'.row
    /\ calls' = 1
    /\ UNCHANGED <<today, row0, ret2, normVars, userVars, storeVars, batchVars>>

EnrichAgain ==
    /\ calls = 1
    /\ ret1.raised = ""
    /\ ret2' = enrich_employee_row(ret1.row, today)
    /\ row' = ret2'.row
    /\ calls' = 2
    /\ UNCHANGED <<today, row0, ret1, normVars, userVars, storeVars, batchVars>>

NextEnrich == EnrichCall \/ EnrichAgain

SpecEnrich == InitEnrich /\ [][NextEnrich]_vars

----------------------------------------------------------------------------
(* Claims about enrich_employee_row, checked under SpecEnrich *)

Called == calls >= 1
Returned == calls >= 1 /\ ret1.raised = ""

\* "Username is present and is neither N/A nor empty nor None"
UsernameGiven(r) == Has(r, "Username") /\ r["Username"] # None
                    /\ r["Username"] # Empty /\ r["Username"] # NAv

\* C4: for every record r, enrich(r)["WorkEmail"] is lowercase(r.Username) +
\* "@mywinterhaven.com" when Username is present and neither "N/A", empty nor None,
\* and "N/A" otherwise.
C4_WorkEmailLowercased ==
    Returned =>
        ret1.row["WorkEmail"] =
            IF UsernameGiven(row0)
            THEN S(Lower(PyStr(row0["Username"])) \o EmailSuffix)
            ELSE NAv

\* A string is a date written exactly as MM/DD/YYYY: two digits, a slash, two
\* digits, a slash, four digits, naming a day of the calendar.
ExactMMDDYYYY(x) ==
    /\ IsStr(x)
    /\ Len(x.v) = 10
    /\ x.v[3] = "/" /\ x.v[6] = "/"
    /\ \A i \in {1, 2, 4, 5, 7, 8, 9, 10} : IsDigit(x.v[i])
    /\ LET m == DigitsVal(SubSeq(x.v, 1, 2))
           d == DigitsVal(SubSeq(x.v, 4, 5))
           y == DigitsVal(SubSeq(x.v, 7, 10))
       IN m \in 1..12 /\ y >= 1 /\ d >= 1 /\ d <= DaysIn(m, y)

\* A string strptime accepts under %m/%d/%Y, with lm characters of month and ld
\* of day: a month 1..12 of one or two digits, a day of that month of one or
\* two digits (or a space and a digit), a four-digit year from 1 on.
AcceptedAs(x, lm, ld) ==
    /\ IsStr(x)
    /\ Len(x.v) = lm + ld + 6
    /\ x.v[lm + 1] = "/" /\ x.v[lm + ld + 2] = "/"
    /\ \A i \in 1..lm : IsDigit(x.v[i])
    /\ \A i \in (lm + 2)..(lm + ld + 1) :
          IsDigit(x.v[i]) \/ (ld = 2 /\ i = lm + 2 /\ x.v[i] = " ")
    /\ \A i \in (lm + ld + 3)..Len(x.v) : IsDigit(x.v[i])
AcceptedMonth(x, lm) == DigitsVal(SubSeq(x.v, 1, lm))
AcceptedDay(x, lm, ld) ==
    IF x.v[lm + 2] = " " THEN DigitVal(x.v[lm + 3])
    ELSE DigitsVal(SubSeq(x.v, lm + 2, lm + ld + 1))
AcceptedYear(x, lm, ld) == DigitsVal(SubSeq(x.v, lm + ld + 3, Len(x.v)))
AcceptedDates(x) ==
    {[y |-> AcceptedYear(x, w[1], w[2]), m |-> AcceptedMonth(x, w[1]),
      d |-> AcceptedDay(x, w[1], w[2])] :
        w \in {u \in {1, 2} \X {1, 2} :
                 /\ AcceptedAs(x, u[1], u[2])
                 /\ AcceptedMonth(x, u[1]) \in 1..12
                 /\ AcceptedYear(x, u[1], u[2]) >= 1
                 /\ AcceptedDay(x, u[1], u[2]) >= 1
                 /\ AcceptedDay(x, u[1], u[2]) <=
                      DaysIn(AcceptedMonth(x, u[1]), AcceptedYear(x, u[1], u[2]))}}

\* The value the derivation reads: JoinDate, or the legacy "Join Date" when
\* JoinDate is missing or falsy.
EffectiveJoinDate(r) ==
    IF Has(r, "JoinDate") /\ Truthy(r["JoinDate"]) THEN r["JoinDate"]
    ELSE IF Has(r, "Join Date") THEN r["Join Date"] ELSE None

ExpectedYears(td, dt) == IF dt.m > td.m \/ (dt.m = td.m /\ dt.d > td.d)
                         THEN td.y - dt.y - 1 ELSE td.y - dt.y

\* C5 as stated: a JoinDate written exactly MM/DD/YYYY gives the full elapsed
\* years, every other JoinDate gives "N/A".
C5_ExactPatternOnly ==
    Returned =>
        ret1.row["YearsOfService"] =
            IF Has(row0, "JoinDate") /\ ExactMMDDYYYY(row0["JoinDate"])
            THEN S(IntStr(ExpectedYears(today,
                    [y |-> DigitsVal(SubSeq(row0["JoinDate"].v, 7, 10)),
                     m |-> DigitsVal(SubSeq(row0["JoinDate"].v, 1, 2)),
                     d |-> DigitsVal(SubSeq(row0["JoinDate"].v, 4, 5))])))
            ELSE NAv

\* C5 (amended): when the value the derivation reads (JoinDate, or the legacy
\* "Join Date" when JoinDate is missing or falsy) is a string strptime accepts
\* under %m/%d/%Y, YearsOfService is the decimal string of today.year -
\* join.year, minus 1 when the anniversary is still ahead this year; for every
\* other value it is "N/A".
C5_YearsOfService ==
    Returned =>
        LET ds == AcceptedDates(EffectiveJoinDate(row0))
        IN IF ds = {} THEN ret1.row["YearsOfService"] = NAv
           ELSE \A dt \in ds :
                   ret1.row["YearsOfService"] = S(IntStr(ExpectedYears(today, dt)))

C5_Witness ==
    /\ calls = 1
    /\ Get(row0, "JoinDate") = S(Date_03_15_2020)
    /\ today = [y |-> 2024, m |-> 3, d |-> 14]
    /\ ret1.row["YearsOfService"] = S(<<"3">>)

\* C7 as stated: enrich never raises, and whenever JoinDate fails to parse
\* YearsOfService is "N/A".
C7_JoinDateUnparsedGivesNA ==
    Called =>
        /\ ret1.raised = ""
        /\ (AcceptedDates(Get(row0, "JoinDate")) = {}
               => ret1.row["YearsOfService"] = NAv)

\* C7 (amended): enrich never raises, and whenever neither JoinDate nor, when
\* JoinDate is missing or falsy, the legacy "Join Date" value parses,
\* YearsOfService is "N/A".
C7_NeverRaises ==
    Called =>
        /\ ret1.raised = ""
        /\ DOMAIN ret1.row = DOMAIN row0 \cup {"WorkEmail", "YearsOfService"}
        /\ (AcceptedDates(EffectiveJoinDate(row0)) = {}
               => ret1.row["YearsOfService"] = NAv)

C7_Witness ==
    /\ calls = 1
    /\ Get(row0, "JoinDate") = I(2020)
    /\ ~Has(row0, "Username")
    /\ ret1.raised = ""
    /\ ret1.row["YearsOfService"] = NAv

\* C8: enrich is idempotent: with the date held fixed, enriching the result of
\* an enrichment gives that result again.
C8_Idempotent == calls = 2 => ret2 = ret1

C8_Witness ==
    /\ calls = 2
    /\ Get(row0, "WorkEmail") = S(Str_email)
    /\ ret2.row["WorkEmail"] = S(Str_jdoe \o EmailSuffix)
    /\ ret2.row["YearsOfService"] = S(<<"4">>)

\* C9: enrich has no side effects: the record passed in is the same after the
\* call as before, and the result is the input's keys and values plus exactly
\* the two keys WorkEmail and YearsOfService.
C9_InputLeftUnchanged ==
    calls = 1 =>
        /\ row = row0
        /\ DOMAIN ret1.row = DOMAIN row0 \cup {"WorkEmail", "YearsOfService"}
        /\ \A k \in DOMAIN row0 \ {"WorkEmail", "YearsOfService"} : ret1.row[k] = row0[k]

----------------------------------------------------------------------------
(* The canonicalisation runs: a raw record goes through api_create_employee's *)
(* canonicalisation and then save_employees, or, as the one row of a CSV     *)
(* file, through one of the migration scripts.                              *)

Str_007 == <<"0", "0", "7">>
Str_x == <<"x">>

NormKeys == <<"EmployeeID", "Username", "JoinDate", "Nickname", "WorkEmail", "Extra">>
NormInputs ==
    {DictOf([k \in Range(NormKeys) |->
                CASE k = "EmployeeID" -> e
                  [] k = "Username" -> u
                  [] k = "JoinDate" -> j
                  [] k = "Nickname" -> n
                  [] k = "WorkEmail" -> w
                  [] OTHER -> x]) :
        e \in {Absent, S(Str_007), I(7)},
        u \in {Absent, None, Empty, S(Str_JDoe)},
        j \in {Absent, Empty, S(Date_03_15_2020)},
        n \in {Absent, None, NAv, S(Str_x)},
        w \in {Absent, S(Str_email)},
        x \in {Absent, S(Str_x)}}

\* the raw record as the CSV file whose one row it is
OneRowFile(raw) ==
    LET Held(k) == k \in DOMAIN raw
        hdr == SelectSeq(NormKeys, Held)
    IN [header |-> hdr, lines |-> <<[c \in Range(hdr) |-> raw[c].v]>>]
IsCsvRow(raw) == DOMAIN raw # {} /\ \A k \in DOMAIN raw : IsStr(raw[k])

InitNormalize ==
    /\ today \in {[y |-> 2024, m |-> 3, d |-> 14]}
    /\ nraw \in NormInputs
    /\ npath = "-"
    /\ nout = EmptyDict
    /\ EnrichIdle /\ UserIdle /\ StoreIdle /\ BatchIdle

\* api_create_employee, lines 198-206
NormalizeCreate ==
    /\ npath = "-"
    /\ nout' = create_canonical(nraw)
    /\ npath' = "create"
    /\ UNCHANGED <<today, nraw, enrichVars, userVars, storeVars, batchVars>>

\* save_employees on the frame holding the canonicalised record
NormalizeSave ==
    /\ npath = "create"
    /\ LET w == save_frame(DataFrame(<<nout>>, canonical_cols), today)
       IN /\ ~w.exc
          /\ nout' = w.df.rows[1]
    /\ npath' = "saved"
    /\ UNCHANGED <<today, nraw, enrichVars, userVars, storeVars, batchVars>>

MigrateSqlite ==
    /\ npath = "-"
    /\ IsCsvRow(nraw)
    /\ LET w == migrate_sqlite(OneRowFile(nraw))
       IN /\ ~w.exc
          /\ nout' = w.df.rows[1]
    /\ npath' = "sqlite"
    /\ UNCHANGED <<today, nraw, enrichVars, userVars, storeVars, batchVars>>

MigratePostgres ==
    /\ npath = "-"
    /\ IsCsvRow(nraw)
    /\ LET w == migrate_postgres(OneRowFile(nraw))
       IN /\ ~w.exc
          /\ nout' = w.df.rows[1]
    /\ npath' = "postgres"
    /\ UNCHANGED <<today, nraw, enrichVars, userVars, storeVars, batchVars>>

NextNormalize == NormalizeCreate \/ NormalizeSave \/ MigrateSqlite \/ MigratePostgres

SpecNormalize == InitNormalize /\ [][NextNormalize]_vars

----------------------------------------------------------------------------
(* Claims about the canonicalisation, checked under SpecNormalize *)

\* the canonical field list of the data model
CanonicalFields ==
    {"EmployeeID", "Username", "FirstName", "LastName", "Nickname", "DepartmentCode",
     "Department", "Position", "JoinDate", "Birthday", "OfficeLocation", "Supervisor",
     "OfficePhoneAndExtension", "MobilePhone", "EmploymentType", "EmploymentStatus"}
DerivedFields == {"WorkEmail", "YearsOfService"}

\* a canonical field absent from raw, or present with a falsy value (None, '')
AbsentOrFalsy(raw, c) == c \notin DOMAIN raw \/ raw[c] = None \/ raw[c] = Empty

\* C2 as stated: whatever the raw mapping, the key set of the canonical record
\* is exactly the 16 canonical fields.
C2_KeySetIsCanonical16 == npath # "-" => DOMAIN nout = CanonicalFields

\* C2 (amended): whatever the raw mapping, the canonical record holds every one
\* of the 16 canonical fields and no field of raw outside the column list: its
\* key set is exactly the 16 canonical fields on the migration paths, and those
\* 16 plus the derived WorkEmail and YearsOfService on the paths of main.py
\* (api_create_employee, save_employees).
C2_KeySetIsColumnList ==
    /\ npath \in {"create", "saved"} => DOMAIN nout = CanonicalFields \cup DerivedFields
    /\ npath \in {"sqlite", "postgres"} => DOMAIN nout = CanonicalFields

C2_Witness ==
    /\ npath = "create"
    /\ "Extra" \in DOMAIN nraw
    /\ "FirstName" \notin DOMAIN nraw
    /\ "FirstName" \in DOMAIN nout

\* C3 as stated: on every canonicalisation path, the migration paths included,
\* every canonical field absent from raw or present with a falsy value is "N/A"
\* (read here of the record each path ends with: the saved record, the row
\* migrated).
C3_AbsentOrFalsyIsNA ==
    npath \in {"saved", "sqlite", "postgres"} =>
        \A c \in CanonicalFields : AbsentOrFalsy(nraw, c) => nout[c] = NAv

\* C3 (amended): api_create_employee's canonicalisation sets every canonical
\* field absent from raw to "N/A" and keeps the values raw holds; once the
\* record is saved (save_employees), and on the SQLite migration, every
\* canonical field absent from raw or present with a falsy value is "N/A"; the
\* PostgreSQL migration gives those fields None (NULL) instead.
C3_PlaceholderPerPath ==
    \A c \in CanonicalFields :
        /\ npath = "create" =>
              nout[c] = IF c \in DOMAIN nraw THEN nraw[c] ELSE NAv
        /\ npath \in {"saved", "sqlite"} =>
              (AbsentOrFalsy(nraw, c) => nout[c] = NAv)
        /\ npath = "postgres" =>
              (AbsentOrFalsy(nraw, c) => nout[c] = None)

C3_Witness ==
    /\ npath = "saved"
    /\ nraw = [k \in {"Username", "Nickname"} |-> IF k = "Username" THEN Empty ELSE None]
    /\ \A c \in CanonicalFields : nout[c] = NAv

----------------------------------------------------------------------------
(* generate_username (batch_import_processor.py) *)

\* x[0]: [raised, val]
FirstChar(x) ==
    IF ~IsStr(x) THEN [raised |-> "TypeError", val |-> None]
    ELSE IF Len(x.v) = 0 THEN [raised |-> "IndexError", val |-> None]
    ELSE [raised |-> "", val |-> S(<<x.v[1]>>)]

RECURSIVE WithoutSpaces(_)
WithoutSpaces(s) ==
    IF Len(s) = 0 THEN <<>>
    ELSE (IF Head(s) = " " THEN <<>> ELSE <<Head(s)>>) \o WithoutSpaces(Tail(s))

\* variant: the last name taken as it is, without .replace(' ', '')
KeepSpaces(x) ==
    IF ~IsStr(x) THEN [raised |-> "AttributeError", val |-> None]
    ELSE [raised |-> "", val |-> x]
\* x.replace(' ', ''): [raised, val]
ReplaceSpaces(x) ==
    IF ~IsStr(x) THEN [raised |-> "AttributeError", val |-> None]
    ELSE [raised |-> "", val |-> S(WithoutSpaces(x.v))]

\* variant: the test of line 14 without its isinstance(last_name, str) term
GuardFirstNameOnly(f, l) == ~Truthy(f) \/ ~IsStr(f)
\* not first_name or not isinstance(first_name, str) or not isinstance(last_name, str)
username_guard(f, l) == ~Truthy(f) \/ ~IsStr(f) \/ ~IsStr(l)

\* generate_username(first_name, last_name): [raised, val]
generate_username(f, l) ==
    IF username_guard(f, l) THEN [raised |-> "", val |-> None]
    ELSE LET a == FirstChar(f)
             b == ReplaceSpaces(l)
         IN IF a.raised # "" THEN a
            ELSE IF b.raised # "" THEN b
            ELSE [raised |-> "", val |-> S(Lower(a.val.v \o b.val.v))]

Str_Jane == <<"J", "a", "n", "e">>
Str_John == <<"J", "o", "h", "n">>
Str_VanHorn == <<"V", "a", "n", " ", "H", "o", "r", "n">>
Str_SmithJones == <<"S", "m", "i", "t", "h", "-", "J", "o", "n", "e", "s">>
Str_Doe == <<"D", "o", "e">>

FirstNameInputs ==
    {None, Empty, NaN, I(0), I(5), F(0), S(<<" ">>), S(Str_Jane), S(Str_John),
     S(<<"j">>), S(NA)}
LastNameInputs ==
    {None, Empty, NaN, I(0), I(5), S(<<" ">>), S(Str_VanHorn), S(Str_SmithJones),
     S(Str_Doe), S(<<" ", "D", "o", "e", " ">>), S(NA),
     S(<<"V", "a", "n", " ", "H", "-", "J">>)}

InitUsername ==
    /\ today \in {[y |-> 2024, m |-> 3, d |-> 14]}
    /\ first_name \in FirstNameInputs
    /\ last_name \in LastNameInputs
    /\ username = NoOutcome
    /\ EnrichIdle /\ NormIdle /\ StoreIdle /\ BatchIdle

GenerateUsername ==
    /\ username = NoOutcome
    /\ username' = generate_username(first_name, last_name)
    /\ UNCHANGED <<today, first_name, last_name, enrichVars, normVars, storeVars, batchVars>>

NextUsername == GenerateUsername

SpecUsername == InitUsername /\ [][NextUsername]_vars

----------------------------------------------------------------------------
(* Claims about generate_username, checked under SpecUsername *)

\* None or the empty string (and whatever else Python takes for false)
Falsy(x) == x = None \/ x = Empty \/ x = I(0) \/ x = F(0)
NotAString(x) == x.t # "str"

\* C10: generate_username returns None whenever first_name is falsy (None or
\* the empty string) or either argument is not a string, and raises for no such
\* input.
C10_NoneForBadInput ==
    (username # NoOutcome /\ (Falsy(first_name) \/ NotAString(first_name)
                              \/ NotAString(last_name)))
        => username = [raised |-> "", val |-> None]

C10_Witness ==
    /\ first_name = S(Str_Jane)
    /\ last_name = None
    /\ username = [raised |-> "", val |-> None]

NotSpace(c) == c # " "
\* the characters the username is made of, before lower-casing
Initial(f) == <<f.v[1]>>
SpaceFree(l) == SelectSeq(l.v, NotSpace)
Str_jvanhorn == <<"j", "v", "a", "n", "h", "o", "r", "n">>
Str_jsmith_jones == <<"j", "s", "m", "i", "t", "h", "-", "j", "o", "n", "e", "s">>

\* C11: for every non-empty string first_name and every string last_name,
\* generate_username returns the lower-cased concatenation of the first
\* character of first_name and of last_name without its space characters;
\* hyphens and every other character are kept.  ("Jane", "Van Horn") gives
\* "jvanhorn" and ("John", "Smith-Jones") gives "jsmith-jones".
C11_InitialPlusLastName ==
    (username # NoOutcome /\ IsStr(first_name) /\ Len(first_name.v) > 0
                          /\ IsStr(last_name))
        => /\ username.raised = ""
           /\ IsStr(username.val)
           /\ LET u == username.val.v
                  e == Initial(first_name) \o SpaceFree(last_name)
              IN /\ Len(u) = Len(e)
                 /\ \A i \in 1..Len(e) : u[i] = LowerChar(e[i])
                 /\ \A c \in {"-", "/"} :
                        Cardinality({i \in 1..Len(u) : u[i] = c})
                            = Cardinality({i \in 1..Len(e) : e[i] = c})
           /\ (first_name = S(Str_Jane) /\ last_name = S(Str_VanHorn))
                  => username.val = S(Str_jvanhorn)
           /\ (first_name = S(Str_John) /\ last_name = S(Str_SmithJones))
                  => username.val = S(Str_jsmith_jones)

C11_Witness ==
    /\ first_name = S(Str_John)
    /\ last_name = S(<<"V", "a", "n", " ", "H", "-", "J">>)
    /\ username = [raised |-> "", val |-> S(<<"j", "v", "a", "n", "h", "-", "j">>)]

----------------------------------------------------------------------------
(* main of batch_import_processor.py: the usernames of Final_Import.csv     *)

\* what main logs, as far as the flags and the errors go
LogEntry(kind, at, u, ids) == [kind |-> kind, row |-> at, username |-> u, emp_ids |-> ids]

\* a frame whose columns are all int64 or float64
AllNumeric(df) ==
    \A i \in 1..Len(df.rows) : \A c \in Range(df.cols) :
        df.rows[i][c].t \in {"int", "float", "nan"}
AllInt(df) ==
    \A i \in 1..Len(df.rows) : \A c \in Range(df.cols) : df.rows[i][c].t = "int"

\* the Series iterrows gives for row i: its values in the common dtype of the
\* columns (float64 for a frame of int64 and float64 columns)
iterrow(df, i) ==
    IF AllNumeric(df) /\ ~AllInt(df)
    THEN [c \in Range(df.cols) |-> AsFloat(df.rows[i][c])]
    ELSE df.rows[i]

\* str(target_row.get(col, ''))
str_get(target_row, col) == S(PyStr(GetOr(target_row, col, Empty)))

\* a column of dtype int64 or float64 (a column of blanks is float64)
NumericColumn(df, c) ==
    c \in Range(df.cols) /\ \A i \in 1..Len(df.rows) : df.rows[i][c].t \in {"int", "float", "nan"}

\* df.at[i, col] = x: a new column when the frame has none of that name
set_at(df, i, col, x) ==
    LET cols == IF col \in Range(df.cols) THEN df.cols ELSE Append(df.cols, col)
    IN [cols |-> cols,
        rows |-> [j \in 1..Len(df.rows) |->
                    [c \in Range(cols) |->
                       IF c = col THEN (IF j = i THEN x ELSE GetOr(df.rows[j], c, NaN))
                       ELSE df.rows[j][c]]]]

Tracked(tracker, u) == {k \in 1..Len(tracker) : tracker[k].username = u}
\* if username in username_tracker: append(emp_id) else: = [emp_id]
track(tracker, u, emp_id) ==
    IF Tracked(tracker, u) # {}
    THEN [k \in 1..Len(tracker) |->
            IF tracker[k].username = u
            THEN [username |-> u, emp_ids |-> Append(tracker[k].emp_ids, emp_id)]
            ELSE tracker[k]]
    ELSE Append(tracker, [username |-> u, emp_ids |-> <<emp_id>>])

\* s.strip()
RECURSIVE lstrip(_)
lstrip(s) == IF Len(s) > 0 /\ Head(s) = " " THEN lstrip(Tail(s)) ELSE s
RECURSIVE rstrip(_)
rstrip(s) == IF Len(s) > 0 /\ s[Len(s)] = " " THEN rstrip(SubSeq(s, 1, Len(s) - 1)) ELSE s
str_strip(s) == rstrip(lstrip(s))

\* c in s
In(c, s) == \E k \in 1..Len(s) : s[k] = c

\* variant: the space looked for in the last name as read, not stripped
FlagsUnstripped(at, emp_id, last, u) ==
    (IF In(" ", last.v) THEN <<LogEntry("space", at, u.v, <<emp_id>>)>> ELSE <<>>)
    \o (IF In("-", u.v) THEN <<LogEntry("hyphen", at, u.v, <<emp_id>>)>> ELSE <<>>)
\* the flags of lines 60-63
flags(at, emp_id, last, u) ==
    (IF In(" ", str_strip(last.v)) THEN <<LogEntry("space", at, u.v, <<emp_id>>)>> ELSE <<>>)
    \o (IF In("-", u.v) THEN <<LogEntry("hyphen", at, u.v, <<emp_id>>)>> ELSE <<>>)

\* lines 55-69 for a row that is not skipped: [exc, df, tracker, log]; raises
\* tells whether an assignment the column's dtype cannot hold raises
generated(at, emp_id, first, last, u, df, tracker, raises) ==
    IF raises /\ NumericColumn(df, "Username")
    THEN [exc |-> TRUE, df |-> df, tracker |-> tracker, log |-> <<>>]
    ELSE [exc |-> FALSE,
          df |-> set_at(df, at, "Username", u),
          tracker |-> track(tracker, u, emp_id),
          log |-> flags(at, emp_id, last, u)]

\* lines 51-69 for the names read
named(at, emp_id, first, last, df, tracker, raises) ==
    IF ~Truthy(first) \/ ~Truthy(last)
    THEN [exc |-> FALSE, df |-> df, tracker |-> tracker,
          log |-> <<LogEntry("skip", at, <<>>, <<emp_id>>)>>]
    ELSE generated(at, emp_id, first, last, generate_username(first, last).val,
                   df, tracker, raises)

\* one turn of the loop of main (lines 46-69) over the Series of the row
loop_body(at, target_row, df, tracker, raises) ==
    named(at, Get(target_row, "EmployeeID"), str_get(target_row, "FirstName"),
          str_get(target_row, "LastName"), df, tracker, raises)

\* variant: a username flagged from the third row that generated it
DuplicateFlagsOverTwo(tracker) ==
    LET Dup(e) == Len(e.emp_ids) > 2
        d == SelectSeq(tracker, Dup)
    IN [k \in 1..Len(d) |-> LogEntry("duplicate", 0, d[k].username.v, d[k].emp_ids)]
\* the final duplicate check (lines 73-77): the flags, in the tracker's order
duplicate_flags(tracker) ==
    LET Dup(e) == Len(e.emp_ids) > 1
        d == SelectSeq(tracker, Dup)
    IN [k \in 1..Len(d) |-> LogEntry("duplicate", 0, d[k].username.v, d[k].emp_ids)]

\* pd.to_numeric(x, errors='coerce') then .astype('Int64').fillna(0).astype(int)
to_int(x) ==
    CASE x.t = "int" -> x
      [] x.t = "float" -> I(IntOf(x))
      [] x.t = "str" ->
            IF IsIntText(x.v) THEN I(IntTextVal(x.v))
            ELSE IF IsFloatText(x.v) THEN I(FloatTextVal(x.v))
            ELSE I(0)
      [] OTHER -> I(0)

\* line 83: [exc, df]; a frame without the column raises KeyError
convert_ids(df) ==
    IF "EmployeeID" \notin Range(df.cols) THEN [exc |-> TRUE, df |-> df]
    ELSE [exc |-> FALSE,
          df |-> [cols |-> df.cols,
                  rows |-> [i \in 1..Len(df.rows) |->
                              [c \in Range(df.cols) |->
                                 IF c = "EmployeeID" THEN to_int(df.rows[i][c])
                                 ELSE df.rows[i][c]]]]]

\* the rows of the names Final_Import.csv can hold
Str_Al == <<"A", "l">>
Str_Smith == <<"S", "m", "i", "t", "h">>
Str_old == <<"o", "l", "d">>
Name(f, l) == [first |-> f, last |-> l]
BatchNames ==
    {Name(Str_John, Str_Doe), Name(Str_Jane, Str_Doe), Name(Str_Al, Str_Smith),
     Name(Str_John, Str_SmithJones), Name(Str_Jane, Str_VanHorn),
     Name(<<>>, <<" ", "D", "o", "e">>), Name(<<"5">>, <<>>)}

MaxBatchRows == 3

\* the EmployeeID cells: 1, 2, 3, ... or 007, A12, 3, ...
PlainIds == [i \in 1..(MaxBatchRows + 1) |-> IntStr(i)]
OpaqueIds == [i \in 1..(MaxBatchRows + 1) |->
                IF i = 1 THEN Str_007 ELSE IF i = 2 THEN <<"A", "1", "2">> ELSE IntStr(i)]

BatchFile(cols, ids, names, uname) ==
    [header |-> cols,
     lines |-> [i \in 1..Len(names) |->
                  [c \in Range(cols) |->
                     CASE c = "EmployeeID" -> ids[i]
                       [] c = "FirstName" -> names[i].first
                       [] c = "LastName" -> names[i].last
                       [] OTHER -> uname]]]

NameLists == UNION {[1..n -> BatchNames] : n \in 0..MaxBatchRows}

BatchFiles ==
    {BatchFile(<<"EmployeeID", "FirstName", "LastName", "Username">>, ids, names, <<>>) :
        ids \in {PlainIds, OpaqueIds}, names \in NameLists}
    \cup {BatchFile(f.cols, PlainIds, names, f.uname) :
            f \in {[cols |-> <<"EmployeeID", "FirstName", "LastName", "Username">>, uname |-> Str_old],
                   [cols |-> <<"EmployeeID", "FirstName", "LastName">>, uname |-> <<>>],
                   [cols |-> <<"EmployeeID", "FirstName", "Username">>, uname |-> <<>>],
                   [cols |-> <<"FirstName", "LastName", "Username">>, uname |-> <<>>]},
            names \in NameLists}
    \cup {EmptyFile}

InitBatch ==
    /\ today \in {[y |-> 2024, m |-> 3, d |-> 14]}
    /\ target \in {[exists |-> FALSE, file |-> EmptyFile]}
                   \cup {[exists |-> TRUE, file |-> f] : f \in BatchFiles}
    /\ df_target = EmptyDF
    /\ pc = "start"
    /\ row_index = 0
    /\ username_tracker = <<>>
    /\ log = <<>>
    /\ EnrichIdle /\ NormIdle /\ UserIdle /\ StoreIdle

\* lines 34-41: the file looked for and read
opened(r) ==
    IF r.exc # "" THEN [pc |-> "failed", df |-> EmptyDF, log |-> <<LogEntry("critical", 0, <<>>, <<>>)>>]
    ELSE [pc |-> "loop", df |-> r.df, log |-> <<>>]
open_target(t) ==
    IF ~t.exists THEN [pc |-> "missing", df |-> EmptyDF, log |-> <<LogEntry("not found", 0, <<>>, <<>>)>>]
    ELSE opened(read_csv(t.file))

BatchLoad ==
    /\ pc = "start"
    /\ pc' = open_target(target).pc
    /\ df_target' = open_target(target).df
    /\ log' = log \o open_target(target).log
    /\ row_index' = 1
    /\ UNCHANGED <<today, target, username_tracker, enrichVars, normVars, userVars, storeVars>>

\* the rows iterrows goes over are those of the frame as it was read
BatchStep(o) ==
    /\ pc' = IF o.exc THEN "failed" ELSE "loop"
    /\ df_target' = o.df
    /\ username_tracker' = o.tracker
    /\ log' = log \o (IF o.exc THEN <<LogEntry("critical", 0, <<>>, <<>>)>> ELSE o.log)
    /\ row_index' = row_index + 1
    /\ UNCHANGED <<today, target, enrichVars, normVars, userVars, storeVars>>

BatchRow ==
    /\ pc = "loop"
    /\ row_index <= Len(df_target.rows)
    /\ \E raises \in BOOLEAN :
          /\ raises => loop_body(row_index, iterrow(read_csv(target.file).df, row_index),
                                 df_target, username_tracker, TRUE).exc
          /\ BatchStep(loop_body(row_index, iterrow(read_csv(target.file).df, row_index),
                                 df_target, username_tracker, raises))

BatchDuplicates ==
    /\ pc = "loop"
    /\ row_index > Len(df_target.rows)
    /\ pc' = "convert"
    /\ log' = log \o duplicate_flags(username_tracker)
    /\ UNCHANGED <<today, target, df_target, row_index, username_tracker,
                   enrichVars, normVars, userVars, storeVars>>

\* lines 83-86: the conversion of the key column and the save
converted(r, t) ==
    IF r.exc THEN [pc |-> "failed", target |-> t, df |-> r.df,
                   log |-> <<LogEntry("critical", 0, <<>>, <<>>)>>]
    ELSE [pc |-> "done", target |-> [exists |-> TRUE, file |-> to_csv(r.df)], df |-> r.df,
          log |-> <<>>]

BatchSave ==
    /\ pc = "convert"
    /\ pc' = converted(convert_ids(df_target), target).pc
    /\ target' = converted(convert_ids(df_target), target).target
    /\ df_target' = converted(convert_ids(df_target), target).df
    /\ log' = log \o converted(convert_ids(df_target), target).log
    /\ UNCHANGED <<today, row_index, username_tracker, enrichVars, normVars, userVars, storeVars>>

NextBatch == BatchLoad \/ BatchRow \/ BatchDuplicates \/ BatchSave

SpecBatch == InitBatch /\ [][NextBatch]_vars

----------------------------------------------------------------------------
(* Claims about the batch run, checked under SpecBatch *)

\* the rows whose turn of the loop is over
Turned(i) == /\ pc \in {"loop", "convert", "done", "failed"}
             /\ i \in 1..Len(df_target.rows)
             /\ i < row_index
\* the row was skipped / the turn of the row ended in an exception
Skipped(i) == \E k \in 1..Len(log) : log[k].kind = "skip" /\ log[k].row = i
Aborted(i) == pc = "failed" /\ i = row_index - 1
\* the rows main has generated a username for and gone on from
Processed(i) == Turned(i) /\ ~Skipped(i) /\ ~Aborted(i)

Flagged(kind, i) == \E k \in 1..Len(log) : log[k].kind = kind /\ log[k].row = i

\* the text of a cell of the frame, as str() gives it
CellStr(i, c) == PyStr(df_target.rows[i][c])
\* a space with a character other than a space somewhere before and after it
InternalSpace(s) ==
    \E a, b, c \in 1..Len(s) : a < b /\ b < c /\ s[a] # " " /\ s[b] = " " /\ s[c] # " "
Count(ch, s) == Cardinality({k \in 1..Len(s) : s[k] = ch})

\* C12: in the batch run a hyphen warning is raised for a row exactly when the
\* username generated for it contains a hyphen, and a space warning exactly
\* when its last name contains an internal space; in both cases the username
\* assigned to the row is the generated one, its hyphens kept and the spaces
\* of the last name removed.
C12_FlagsAndAssignment ==
    \A i \in 1..Len(df_target.rows) :
        Processed(i) =>
            LET u == df_target.rows[i]["Username"]
                first == CellStr(i, "FirstName")
                last == CellStr(i, "LastName")
            IN /\ IsStr(u)
               /\ Flagged("hyphen", i) <=> Count("-", u.v) > 0
               /\ Flagged("space", i) <=> InternalSpace(last)
               /\ (Flagged("hyphen", i) \/ Flagged("space", i)) =>
                     /\ Len(u.v) = 1 + Len(SelectSeq(last, NotSpace))
                     /\ u.v[1] = LowerChar(first[1])
                     /\ Tail(u.v) = Lower(SelectSeq(last, NotSpace))
                     /\ Count("-", u.v) = Count("-", <<first[1]>>) + Count("-", last)
                     /\ Count(" ", Tail(u.v)) = 0

\* a batch with a Smith-Jones and a Van Horn, both flagged and both given
\* their username
C12_Witness ==
    /\ pc = "convert"
    /\ Len(df_target.rows) = 2
    /\ df_target.rows[1]["Username"] = S(Str_jsmith_jones)
    /\ df_target.rows[2]["Username"] = S(Str_jvanhorn)
    /\ Flagged("hyphen", 1) /\ ~Flagged("space", 1)
    /\ Flagged("space", 2) /\ ~Flagged("hyphen", 2)

\* the processed rows that were given the username u, and their EmployeeIDs in
\* row order
RowsGiven(u) == {i \in 1..Len(df_target.rows) : Processed(i) /\ df_target.rows[i]["Username"] = u}
RECURSIVE InOrder(_)
InOrder(set) ==
    IF set = {} THEN <<>>
    ELSE LET least == CHOOSE i \in set : \A j \in set : i <= j
         IN <<least>> \o InOrder(set \ {least})
IdOfRow(i) == GetOr(df_target.rows[i], "EmployeeID", None)
\* the same EmployeeID: an int and the float of the same value are one number
SameId(a, b) == AsFloat(a) = AsFloat(b)
Reports(u) == {k \in 1..Len(log) : log[k].kind = "duplicate" /\ log[k].username = u.v}
Str_asmith == <<"a", "s", "m", "i", "t", "h">>

\* C13: after all rows are processed, a username is reported as a duplicate if
\* and only if more than one processed row generated it, the report lists the
\* EmployeeIDs of all the colliding rows in row order, and a username only one
\* row generated is never reported.  Usernames jdoe, jdoe, asmith with the IDs
\* 1, 2, 3 flag jdoe with 1, 2 and do not flag asmith.
C13_DuplicatesReported ==
    pc = "convert" =>
        /\ \A i \in 1..Len(df_target.rows) :
              Processed(i) =>
                 LET u == df_target.rows[i]["Username"]
                     ids == InOrder(RowsGiven(u))
                 IN /\ Cardinality(RowsGiven(u)) > 1 <=> Reports(u) # {}
                    /\ Cardinality(Reports(u)) <= 1
                    /\ \A k \in Reports(u) :
                          /\ Len(log[k].emp_ids) = Len(ids)
                          /\ \A n \in 1..Len(ids) :
                                SameId(log[k].emp_ids[n], IdOfRow(ids[n]))
        /\ \A k \in 1..Len(log) :
              log[k].kind = "duplicate" => RowsGiven(S(log[k].username)) # {}

C13_Witness ==
    /\ pc = "convert"
    /\ Len(df_target.rows) = 3
    /\ df_target.rows[1]["Username"] = S(Str_jdoe)
    /\ df_target.rows[2]["Username"] = S(Str_jdoe)
    /\ df_target.rows[3]["Username"] = S(Str_asmith)
    /\ log = <<LogEntry("duplicate", 0, Str_jdoe, <<I(1), I(2)>>)>>

\* a hyphen, space or duplicate warning was logged
Warned == \E k \in 1..Len(log) : log[k].kind \in {"hyphen", "space", "duplicate"}
\* main has returned
Ended == pc \in {"done", "failed", "missing"}

\* C14: warnings are reporting-only and never block processing: in a batch
\* with hyphenated, multi-word or duplicate usernames every row is still
\* processed, the Username written for each row is generate_username of the
\* row's own FirstName and LastName (colliding rows keep the same username)
\* and the batch reaches the save.
C14_WarningsNeverBlock ==
    (Ended /\ Warned) =>
        /\ pc = "done"
        /\ \A i \in 1..Len(df_target.rows) :
              /\ Processed(i)
              /\ target.file.lines[i]["Username"]
                    = CellText(generate_username(df_target.rows[i]["FirstName"],
                                                 df_target.rows[i]["LastName"]).val)

\* the row has no first name or no last name: the file has no such column, or
\* the cell is blank
NameMissing(i) ==
    \E c \in {"FirstName", "LastName"} :
        c \notin Range(target.file.header) \/ target.file.lines[i][c] = <<>>
\* the rows whose turn of the loop is over and did not end in an exception
Done(i) == Turned(i) /\ ~Aborted(i)
\* the number of EmployeeIDs the tracker holds
RECURSIVE TrackedCount(_)
TrackedCount(tracker) ==
    IF Len(tracker) = 0 THEN 0
    ELSE Len(Head(tracker).emp_ids) + TrackedCount(Tail(tracker))
\* the Username cell of row i as the file held it before the run (NaN when
\* the file has no Username column)
UsernameAsRead(i) == GetOr(read_csv(target.file).df.rows[i], "Username", NaN)

\* C22: in the batch run a row whose FirstName or LastName is missing or blank
\* is skipped: its Username cell is left as it was, no username is generated
\* for it and it adds no entry to the duplicate detection; all other rows are
\* processed.  Read while the file is as it was before the run.
C22_BlankRowsSkipped ==
    pc \in {"loop", "convert"} =>
        /\ \A i \in 1..Len(df_target.rows) :
              Done(i) =>
                 IF NameMissing(i)
                 THEN /\ Skipped(i)
                      /\ GetOr(df_target.rows[i], "Username", NaN) = UsernameAsRead(i)
                 ELSE /\ ~Skipped(i)
                      /\ IsStr(df_target.rows[i]["Username"])
        /\ TrackedCount(username_tracker)
              = Cardinality({i \in 1..Len(df_target.rows) : Done(i) /\ ~NameMissing(i)})

----------------------------------------------------------------------------
(* The handlers of main.py over db.csv.  Each is computed from the content   *)
(* of the file, the request and the date, and gives the response status, the *)
(* content of the file afterwards, the record the request had stored (none  *)
(* when it stored none) and the position of the stored row that holds it    *)
(* (0 when there is none).                                                   *)

Outcome(st, file, body, at) == [status |-> st, file |-> file, body |-> body, row |-> at]

\* df["EmployeeID"].astype(str) == emp_id: the positions of the rows that match
IdMatches(df, id) == {i \in 1..Len(df.rows) : PyStr(df.rows[i]["EmployeeID"]) = id}

\* df['EmployeeID'] raises KeyError on the frame without columns that
\* load_employees returns when db.csv cannot be read
HasIdColumn(df) == "EmployeeID" \in Range(df.cols)

\* the outcome of a handler that appended the record body: out is the file
\* save_employees left
Appended(st, out, body) == Outcome(st, out, body, Len(out.lines))

\* api_create_employee from the frame load_employees returned: 500 is the
\* unhandled KeyError
create_employee(df, file, emp, td) ==
    IF ~HasIdColumn(df) THEN Outcome(500, file, EmptyDict, 0)
    ELSE IF IsStr(Get(emp, "EmployeeID")) /\ IdMatches(df, Get(emp, "EmployeeID").v) # {}
         THEN Outcome(400, file, EmptyDict, 0)
    ELSE Appended(200,
             save_employees(file,
                 concat(df, DataFrame(<<create_canonical(emp)>>, canonical_cols)), td),
             emp)

api_create_employee(file, emp, td) ==
    create_employee(load_employees(file, td), file, emp, td)

\* a column of numbers (int64 or float64)
Numeric(df, c) == \A i \in 1..Len(df.rows) : df.rows[i][c].t \in {"int", "float"}
\* df.at[i, col] = new raises or warns and upcasts, by the pandas version,
\* when a column of numbers is given a value that is not a number
Incompatible(df, emp) ==
    \E c \in Range(df.cols) : Numeric(df, c) /\ GetOr(emp, c, NAv).t \notin {"int", "float"}
\* for col in df.columns: df.at[i, col] = emp.get(col, 'N/A')
\* (None put in a column of numbers is NaN)
SetRow(df, i, emp) ==
    LET New(c) == IF Numeric(df, c) /\ GetOr(emp, c, NAv) = None THEN NaN
                  ELSE GetOr(emp, c, NAv)
    IN [cols |-> df.cols,
        rows |-> Settle(df.cols, [j \in 1..Len(df.rows) |->
                                    IF j = i THEN [c \in Range(df.cols) |-> New(c)]
                                    ELSE df.rows[j]])]

Min(set) == CHOOSE i \in set : \A j \in set : i <= j

\* api_update_employee from the frame load_employees returned; raises tells
\* whether an incompatible assignment raises
update_employee(df, file, emp_id, emp, td, raises) ==
    LET idx == IdMatches(df, emp_id)
    IN IF ~HasIdColumn(df) THEN Outcome(500, file, EmptyDict, 0)
       ELSE IF idx = {} THEN Outcome(404, file, EmptyDict, 0)
       ELSE IF raises /\ Incompatible(df, emp) THEN Outcome(500, file, EmptyDict, 0)
       ELSE Outcome(200, save_employees(file, SetRow(df, Min(idx), emp), td), emp, Min(idx))

api_update_employee(file, emp_id, emp, td, raises) ==
    update_employee(load_employees(file, td), file, emp_id, emp, td, raises)

\* df.drop(idx)
drop(df, idx) ==
    LET Kept(i) == i \notin idx
        keep == SelectSeq([i \in 1..Len(df.rows) |-> i], Kept)
    IN [cols |-> df.cols, rows |-> [k \in 1..Len(keep) |-> df.rows[keep[k]]]]

\* api_delete_employee from the frame load_employees returned
delete_employee(df, file, emp_id, td) ==
    LET idx == IdMatches(df, emp_id)
    IN IF ~HasIdColumn(df) THEN Outcome(500, file, EmptyDict, 0)
       ELSE IF idx = {} THEN Outcome(404, file, EmptyDict, 0)
       ELSE Outcome(200, save_employees(file, drop(df, idx), td), EmptyDict, 0)

api_delete_employee(file, emp_id, td) ==
    delete_employee(load_employees(file, td), file, emp_id, td)

\* c.strip() of a column name: column names are whole strings in this model,
\* so the name with spaces around it that the uploads use is listed
strip(c) == IF c = " EmployeeID " THEN "EmployeeID" ELSE c

\* df_new.columns = [c.strip() for c in df_new.columns]
strip_columns(df) ==
    LET names == [k \in 1..Len(df.cols) |-> strip(df.cols[k])]
        Old(c) == df.cols[CHOOSE k \in 1..Len(df.cols) : names[k] = c]
    IN [cols |-> names,
        rows |-> Eager([i \in 1..Len(df.rows) |->
                          [c \in Range(names) |-> df.rows[i][Old(c)]]])]

\* import_confirm once the upload is read
import_read(r, file, td) ==
    IF r.exc # "" THEN Outcome(400, file, EmptyDict, 0)
    ELSE Outcome(200,
             save_employees(file,
                 concat(placeholders(load_employees(file, td)),
                        placeholders(strip_columns(r.df))), td),
             EmptyDict, 0)

\* import_confirm: data is the request, empty without csv_b64 and else holding
\* the CSV file that csv_b64 encodes
import_confirm(file, data, td) ==
    IF Len(data) = 0 THEN Outcome(400, file, EmptyDict, 0)
    ELSE import_read(read_csv(data[1]), file, td)

\* re.match(r'^[^@\s]+$', s), the white space of the forms being the space
NoAtNoSpace(s) == Len(s) > 0 /\ \A i \in 1..Len(s) : s[i] \notin {"@", " "}
\* re.match(r'^\d{3}-\d{4}( x\d+)?$', s)
PhoneFormat(s) ==
    /\ Len(s) >= 8
    /\ AllDigits(SubSeq(s, 1, 3))
    /\ s[4] = "-"
    /\ AllDigits(SubSeq(s, 5, 8))
    /\ \/ Len(s) = 8
       \/ Len(s) >= 11 /\ s[9] = " " /\ s[10] = "x" /\ AllDigits(SubSeq(s, 11, Len(s)))

\* the fields a form must hold
RequiredFields ==
    {"emp_id", "work_email", "first_name", "last_name", "dept_code", "dept_desc",
     "position", "join_date", "birthday", "supervisor", "employment_type",
     "employment_status"}

\* add_employee_fields: errors is not empty
FormErrors(form) ==
    \/ \E k \in RequiredFields : ~Truthy(form[k])
    \/ ~NoAtNoSpace(form.work_email.v)
    \/ ~AllDigits(form.dept_code.v)
    \/ Truthy(form.office_phone) /\ ~PhoneFormat(form.office_phone.v)
    \/ Truthy(form.years_of_service)
          /\ (~IsIntText(form.years_of_service.v) \/ IntTextVal(form.years_of_service.v) < 0)

\* str(join_date).split('/')[-1]
LastPart(s) ==
    IF SlashPos(s) = {} THEN s
    ELSE SubSeq(s, (CHOOSE i \in SlashPos(s) : \A j \in SlashPos(s) : j <= i) + 1, Len(s))
\* years_of_service = str(datetime.now().year - join_year), '' when int() raises
FormYears(form, td) ==
    LET part == LastPart(form.join_date.v)
    IN IF IsIntText(part) THEN S(IntStr(td.y - IntTextVal(part))) ELSE Empty

\* x or dflt
Or(x, dflt) == IF Truthy(x) THEN x ELSE dflt

\* add_employee_fields: new_row
new_row(form, td) ==
    [c \in Range(canonical_cols) |->
        CASE c = "EmployeeID" -> form.emp_id
          [] c = "Username" -> form.work_email
          [] c = "WorkEmail" -> S(form.work_email.v \o EmailSuffix)
          [] c = "FirstName" -> form.first_name
          [] c = "LastName" -> form.last_name
          [] c = "Nickname" -> Or(form.nickname, NAv)
          [] c = "DepartmentCode" -> form.dept_code
          [] c = "Department" -> form.dept_desc
          [] c = "Position" -> form.position
          [] c = "JoinDate" -> form.join_date
          [] c = "Birthday" -> form.birthday
          [] c = "OfficeLocation" -> Or(form.office_location, NAv)
          [] c = "Supervisor" -> form.supervisor
          [] c = "OfficePhoneAndExtension" -> Or(form.office_phone, Empty)
          [] c = "MobilePhone" -> Or(form.mobile_phone, NAv)
          [] c = "EmploymentType" -> form.employment_type
          [] c = "EmploymentStatus" -> form.employment_status
          [] OTHER -> Or(FormYears(form, td), Empty)]

\* add_employee_fields once the form is accepted
add_row(nr, file, td) ==
    Appended(303,
        save_employees(file,
            concat(load_employees(file, td), DataFrame(<<nr>>, canonical_cols)), td),
        nr)

\* add_employee_fields: 200 is the form shown again with the first error, 303
\* the redirect to the home page
add_employee_fields(file, form, td) ==
    IF FormErrors(form) THEN Outcome(200, file, EmptyDict, 0)
    ELSE add_row(new_row(form, td), file, td)

\* s holds sub (no regular-expression character in the searches of this model)
Contains(s, sub) == \E i \in 0..(Len(s) - Len(sub)) : SubSeq(s, i + 1, i + Len(sub)) = sub
\* row.astype(str).str.contains(q, case=False).any()
RowContains(r, q) == \E c \in DOMAIN r : Contains(Lower(PyStr(r[c])), Lower(q))

\* df[df.apply(lambda row: ..., axis=1)]
search(df, q) ==
    LET Hit(r) == RowContains(r, q)
    IN IF Len(q) = 0 THEN df ELSE [cols |-> df.cols, rows |-> SelectSeq(df.rows, Hit)]

\* index: employees, the rows the page shows
index(file, q, td) == search(load_employees(file, td), q)

\* for k, v in enriched.items(): if k in df.columns: df.at[idx, k] = v
set_enriched(df, outs) ==
    [cols |-> df.cols,
     rows |-> [i \in 1..Len(df.rows) |-> [c \in Range(df.cols) |-> outs[i].row[c]]]]

\* export once the canonical columns are selected
export_frame(df, td) == placeholders(set_enriched(df, EnrichRows(df.rows, td)))

\* variant: the frame load_employees returned, written with the columns it has
ExportAsLoaded(file, td) == export_frame(load_employees(file, td), td)
\* export: the frame written to the download
export(file, td) ==
    export_frame(SelectCols(AddCols(load_employees(file, td), canonical_cols, NAv),
                            canonical_cols), td)

----------------------------------------------------------------------------
(* The store: db.csv under the requests of main.py's routes.  The file is    *)
(* missing at first; view is what the last read returned.                    *)

Dict(ks, vs) == [k \in Range(ks) |-> vs[CHOOSE i \in 1..Len(ks) : ks[i] = k]]

Str_1 == <<"1">>
Str_7 == <<"7">>
Str_99 == <<"9", "9">>

Body_JDoe ==
    Dict(<<"EmployeeID", "Username", "JoinDate", "WorkEmail", "YearsOfService">>,
         <<S(Str_1), S(Str_JDoe), S(Date_03_15_2020), S(Str_email), S(Str_99)>>)
Body_007 == Dict(<<"EmployeeID", "Username", "Nickname">>, <<S(Str_007), None, Empty>>)
Bodies == {Body_JDoe, Body_007, EmptyDict}

IdInputs == {Str_1, Str_7}

UploadHeader == <<" EmployeeID ", "Username", "JoinDate", "YearsOfService", "Nickname">>
Upload_padded ==
    [header |-> UploadHeader,
     lines |-> <<Dict(UploadHeader, <<Str_7, Str_jdoe, Date_3_5_2020, Str_99, <<>>>>)>>]
ImportRequests == {<<>>, <<EmptyFile>>, <<Upload_padded>>}

Str_5551234 == <<"5", "5", "5", "1", "2", "3", "4">>
Form_valid ==
    [emp_id |-> S(<<"5">>), work_email |-> S(Str_jdoe), first_name |-> S(Str_Jane),
     last_name |-> S(Str_Doe), nickname |-> None, dept_code |-> S(<<"1", "2">>),
     dept_desc |-> S(Str_x), position |-> S(Str_x), join_date |-> S(Date_02_29_2020),
     birthday |-> S(Date_iso), office_location |-> None, supervisor |-> S(Str_x),
     office_phone |-> None, mobile_phone |-> None, employment_type |-> S(Str_x),
     employment_status |-> S(Str_x), years_of_service |-> None]
FormInputs ==
    {Form_valid,
     [Form_valid EXCEPT !.work_email = S(Str_email), !.office_phone = S(Str_5551234)]}

Searches == {<<>>, Str_jdoe}

\* the days the requests arrive on
Days == <<[y |-> 2024, m |-> 3, d |-> 14], [y |-> 2024, m |-> 3, d |-> 15]>>

\* the most rows db.csv is let hold
MaxRows == 2

Init ==
    /\ today = Days[1]
    /\ db = EmptyFile
    /\ view = EmptyDF
    /\ resp = NoResp
    /\ EnrichIdle /\ NormIdle /\ UserIdle /\ BatchIdle

\* the handler's outcome o becomes the state: the file, the response
Respond(op, o) ==
    /\ db' = o.file
    /\ resp' = [op |-> op, status |-> o.status, body |-> o.body, row |-> o.row]
    /\ view' = EmptyDF
    /\ UNCHANGED <<today, row, row0, ret1, ret2, calls, normVars, userVars, batchVars>>

ApiCreateEmployee ==
    /\ Len(db.lines) < MaxRows
    /\ \E emp \in Bodies : Respond("create", api_create_employee(db, emp, today))

\* a column of numbers given a value that is not a number: the assignment
\* raises or upcasts the column, by the pandas version
ApiUpdateEmployee ==
    \E emp_id \in IdInputs, emp \in Bodies, raises \in BOOLEAN :
        /\ raises => Incompatible(load_employees(db, today), emp)
        /\ Respond("update", api_update_employee(db, emp_id, emp, today, raises))

ApiDeleteEmployee ==
    \E emp_id \in IdInputs : Respond("delete", api_delete_employee(db, emp_id, today))

ImportConfirm ==
    \E data \in ImportRequests :
        /\ Len(data) > 0 => Len(db.lines) + Len(data[1].lines) <= MaxRows
        /\ Respond("import", import_confirm(db, data, today))

AddEmployeeFields ==
    /\ Len(db.lines) < MaxRows
    /\ \E form \in FormInputs : Respond("add", add_employee_fields(db, form, today))

\* the result of a read
Read(op, df) ==
    /\ view' = df
    /\ resp' = [op |-> op, status |-> 200, body |-> EmptyDict, row |-> 0]
    /\ UNCHANGED <<today, db, row, row0, ret1, ret2, calls, normVars, userVars, batchVars>>

Index == \E q \in Searches : Read("index", index(db, q, today))

Export == Read("export", export(db, today))

\* midnight passes between two requests
Tick ==
    /\ \E k \in 1..(Len(Days) - 1) : today = Days[k] /\ today' = Days[k + 1]
    /\ view' = EmptyDF
    /\ resp' = NoResp
    /\ UNCHANGED <<db, row, row0, ret1, ret2, calls, normVars, userVars, batchVars>>

Next ==
    \/ ApiCreateEmployee
    \/ ApiUpdateEmployee
    \/ ApiDeleteEmployee
    \/ ImportConfirm
    \/ AddEmployeeFields
    \/ Index
    \/ Export
    \/ Tick

Spec == Init /\ [][Next]_vars

\* db.csv saved again outside the program (a spreadsheet) in another encoding:
\* the last name of its first record now holds a byte that is not UTF-8
Resaved(file) ==
    [header |-> file.header,
     lines |-> [i \in 1..Len(file.lines) |->
                  IF i = 1 THEN [file.lines[i] EXCEPT !["LastName"] = <<"J", "o", "s", BadByte>>]
                  ELSE file.lines[i]]]

SavedElsewhere ==
    /\ Len(db.lines) > 0
    /\ ~Undecodable(db)
    /\ db' = Resaved(db)
    /\ view' = EmptyDF
    /\ resp' = NoResp
    /\ UNCHANGED <<today, row, row0, ret1, ret2, calls, normVars, userVars, batchVars>>

NextFault == Next \/ SavedElsewhere

\* the store with a db.csv that can become unreadable
SpecFault == Init /\ [][NextFault]_vars

----------------------------------------------------------------------------
(* The store's claims *)

\* a value that stands for no value: the key missing, None, NaN or ''
LogicallyAbsent(rec, c) == c \notin DOMAIN rec \/ IsNull(rec[c]) \/ rec[c] = Empty

\* the stored row that holds the record the last request submitted
Submitted == resp.status \in {200, 303} /\ resp.row > 0

\* C1: in every reachable state of the store, after any sequence of create,
\* update, delete, import-confirm and manual-add requests, every row of db.csv
\* holds every canonical field and no field is empty (the text a null is
\* written as): a value the submitted record lacks, or holds as None or '', is
\* stored as "N/A".
C1_StoredRecordsCanonical ==
    /\ \A i \in 1..Len(db.lines) :
          \A c \in CanonicalFields :
              c \in DOMAIN db.lines[i] /\ db.lines[i][c] # <<>>
    /\ Submitted =>
          \A c \in CanonicalFields :
              LogicallyAbsent(resp.body, c) => db.lines[resp.row][c] = NA

\* a manual add whose form left the office phone out is stored beside an
\* earlier row, the phone as "N/A"
C1_Witness ==
    /\ resp.op = "add"
    /\ resp.status = 303
    /\ resp.row = 2
    /\ resp.body["OfficePhoneAndExtension"] = Empty
    /\ db.lines[2]["OfficePhoneAndExtension"] = NA

\* the index page or the export was the last request
ReadDone == resp.op \in {"index", "export"}

\* C6: on every read of the store (the index page, the export), the WorkEmail
\* and the YearsOfService of each record returned are the values the
\* derivation gives for that record's Username and JoinDate on the day of the
\* read, whatever value was persisted or supplied by a client.
C6_DerivedOnEveryRead ==
    ReadDone =>
        \A i \in 1..Len(view.rows) :
            /\ view.rows[i]["WorkEmail"] = WorkEmailOf(view.rows[i])
            /\ view.rows[i]["YearsOfService"] = YearsOfServiceOf(view.rows[i], today).val

\* the index page shows 4 years of service for a record whose persisted
\* YearsOfService is 3, the anniversary having passed since it was saved
C6_Witness ==
    /\ resp.op = "index"
    /\ Len(view.rows) = Len(db.lines)
    /\ \E i \in 1..Len(view.rows) :
          /\ db.lines[i]["YearsOfService"] = <<"3">>
          /\ view.rows[i]["YearsOfService"] = S(<<"4">>)

\* the canonical field list of the data model, in its stated order
CanonicalFieldList ==
    <<"EmployeeID", "Username", "FirstName", "LastName", "Nickname", "DepartmentCode",
      "Department", "Position", "JoinDate", "Birthday", "OfficeLocation", "Supervisor",
      "OfficePhoneAndExtension", "MobilePhone", "EmploymentType", "EmploymentStatus">>
\* that list with WorkEmail after Username and YearsOfService at the end
ListWithDerived ==
    SubSeq(CanonicalFieldList, 1, 2) \o <<"WorkEmail">>
        \o SubSeq(CanonicalFieldList, 3, 16) \o <<"YearsOfService">>
Exported == resp.op = "export"

\* C15 as stated: the header of every exported CSV, and of the persisted
\* db.csv, is the canonical field list exactly and in the stated order:
\* EmployeeID, Username, FirstName, LastName, Nickname, DepartmentCode,
\* Department, Position, JoinDate, Birthday, OfficeLocation, Supervisor,
\* OfficePhoneAndExtension, MobilePhone, EmploymentType, EmploymentStatus.
C15_HeaderIsCanonicalList ==
    /\ Exported => view.cols = CanonicalFieldList
    /\ Len(db.header) > 0 => db.header = CanonicalFieldList

\* C15 (amended): the header of every exported CSV, and of db.csv whenever it
\* holds a record, is the column list of main.py: the 16 canonical fields in
\* the stated order with the derived WorkEmail after Username and the derived
\* YearsOfService at the end; a db.csv saved with no record has no header.
C15_HeaderIsColumnList ==
    /\ Exported => view.cols = ListWithDerived
    /\ Len(db.lines) > 0 => db.header = ListWithDerived
    /\ Len(db.lines) = 0 => db.header = <<>>

\* an export of a store that holds a record
C15_Witness ==
    /\ Exported
    /\ Len(view.rows) > 0
    /\ view.cols = ListWithDerived
    /\ db.header = ListWithDerived

\* C16: EmployeeID is a primary key of the store: in every state reachable by
\* api_create_employee, api_update_employee, api_delete_employee,
\* import_confirm and add_employee_fields, no two stored records have the same
\* EmployeeID, compared as strings.
C16_EmployeeIDUnique ==
    \A i, j \in 1..Len(db.lines) :
        i # j => db.lines[i]["EmployeeID"] # db.lines[j]["EmployeeID"]

\* C17: EmployeeID is stored as an opaque string: for every set of records
\* written by save_employees, the next load_employees returns the same records
\* with each EmployeeID, and every other field that is not derived, equal as a
\* string to what was written, non-numeric IDs and IDs with leading zeros
\* included.
C17_WrittenFieldsReadBack ==
    Len(db.lines) > 0 =>
        /\ Len(load_employees(db, today).rows) = Len(db.lines)
        /\ \A i \in 1..Len(db.lines) : \A c \in CanonicalFields :
              PyStr(load_employees(db, today).rows[i][c]) = db.lines[i][c]

\* the EmployeeIDs of the stored records, as written
StoredIds == {db.lines[i]["EmployeeID"] : i \in 1..Len(db.lines)}
GivesStoredId(emp) ==
    Has(emp, "EmployeeID") /\ IsStr(emp["EmployeeID"]) /\ emp["EmployeeID"].v \in StoredIds
\* the request is turned down with the status st and db.csv is left as it was
Rejected(o, st) == o.status = st /\ o.file = db

\* C18: a rejected request leaves the store unchanged: api_create_employee
\* with an EmployeeID already in the store fails with status 400, and
\* api_update_employee and api_delete_employee with an emp_id that matches no
\* stored record fail with status 404; save_employees is not called and the
\* stored records are those before the request.
C18_RejectedLeavesStore ==
    /\ \A emp \in Bodies :
          GivesStoredId(emp) => Rejected(api_create_employee(db, emp, today), 400)
    /\ \A emp_id \in IdInputs \cup {Str_007} :
          emp_id \notin StoredIds =>
             /\ Rejected(api_delete_employee(db, emp_id, today), 404)
             /\ \A emp \in Bodies, raises \in BOOLEAN :
                   Rejected(api_update_employee(db, emp_id, emp, today, raises), 404)

\* the stored records whose EmployeeID is emp_id
StoredAs(emp_id) == {i \in 1..Len(db.lines) : db.lines[i]["EmployeeID"] = emp_id}
\* what a column holds once the value the body gives for it is stored: a
\* column the body omits, or gives as None or '', holds the placeholder
GivenText(emp, c) ==
    IF Has(emp, c) /\ ~IsNull(emp[c]) /\ emp[c] # Empty THEN PyStr(emp[c]) ELSE NA
\* the two stored records agree on every field that is not derived
SameFields(a, b) == \A c \in CanonicalFields : a[c] = b[c]

\* C19: api_update_employee(emp_id, emp) edits in place exactly the first
\* stored record whose EmployeeID equals emp_id: every column of that record
\* becomes the value given in emp, or "N/A" when emp omits the column (the
\* derived fields are recomputed on save); every other record, the number of
\* records and their order are unchanged.  Read here in the claim's favour:
\* of the fields that are not derived, of an assignment that does not raise,
\* and with None and '' stored as the placeholder.
C19_UpdateInPlace ==
    \A emp_id \in IdInputs \cup {Str_007} : \A emp \in Bodies :
        StoredAs(emp_id) # {} =>
            LET o == api_update_employee(db, emp_id, emp, today, FALSE)
                at == Min(StoredAs(emp_id))
            IN /\ o.status = 200
               /\ Len(o.file.lines) = Len(db.lines)
               /\ \A c \in CanonicalFields : o.file.lines[at][c] = GivenText(emp, c)
               /\ \A j \in 1..Len(db.lines) :
                     j # at => SameFields(o.file.lines[j], db.lines[j])

\* what an imported row holds for the canonical field c: the text of the
\* uploaded cell whose stripped column name is c, the placeholder when the
\* upload has no such column or the cell is blank
UploadedText(upload, k, c) ==
    LET hs == {h \in Range(upload.header) : strip(h) = c}
    IN IF hs = {} THEN NA
       ELSE LET text == upload.lines[k][CHOOSE h \in hs : TRUE]
            IN IF text \in NATokens THEN NA ELSE text

\* C20: import_confirm appends: after a successful import of n rows into a
\* store of m records the store holds m + n records, the first m being the
\* previous records unchanged and in their order, followed by the n imported
\* rows in file order, each canonicalised (missing canonical columns filled
\* with "N/A").  Read of the fields that are not derived.
C20_ImportAppends ==
    \A data \in ImportRequests :
        LET o == import_confirm(db, data, today)
            m == Len(db.lines)
        IN o.status = 200 =>
              /\ Len(o.file.lines) = m + Len(data[1].lines)
              /\ \A j \in 1..m : SameFields(o.file.lines[j], db.lines[j])
              /\ \A k \in 1..Len(data[1].lines) : \A c \in CanonicalFields :
                    o.file.lines[m + k][c] = UploadedText(data[1], k, c)

----------------------------------------------------------------------------
(* Claims about the store with an unreadable db.csv, checked under SpecFault *)

\* db.csv holds records and load_employees cannot read it
Unreadable == Len(db.lines) > 0 /\ read_csv(db).exc # ""

\* C21: a failed read never causes data loss: when load_employees cannot read
\* or parse db.csv (it then returns an empty table), no later step of the same
\* request (create, update, delete, import-confirm, manual add) overwrites
\* db.csv: the records persisted before the request are persisted after it.
C21_FailedReadKeepsStore == [][Unreadable => db' = db]_vars

============================================================================
